---------------------------- MODULE Spec2Model ----------------------------
(***************************************************************************)
(* Streaming delivery pipeline of the Timeline Anchor API (src/api.py).    *)
(*                                                                         *)
(* One run = one POST /generate-anchor-stream request.  A run has two      *)
(* threads of control: the consumer (the async generator stream_generator, *)
(* driven by the event loop) and the worker thread (run_pipeline), which   *)
(* runs fetch -> compose -> synthesize and hands chunks over through a     *)
(* queue.Queue.  Every statement that another thread can observe is one    *)
(* step; timeouts (queue.get(timeout=1), thread.join(timeout=5)) may       *)
(* expire whenever the condition they wait for does not hold.              *)
(***************************************************************************)
EXTENDS Integers, Sequences, FiniteSets, TLC

\* ------------------------------------------------------------------ bounds
\* largest number of chunks the speech service emits in one run
MaxChunks == 3

\* largest number of chunks of the first run when two runs are in flight
ConcChunks == 1

\* most direct calls of the service functions in one process
MaxCalls == 2
\* longest text the chat model returns
MaxText == 2
\* most articles handed to the Script Composer
MaxArticles == 2

\* ------------------------------------------------------------------ values
\* Python's None (distinct from every str and from every bytes chunk)
None == "None"
\* a request that carries no X-API-Key header at all
Missing == "<missing>"
\* values of the X-API-Key header a client may send
HeaderValues == {"", "secret", "wrong"}
\* values of os.getenv("ANCHOR_API_KEY"): unset, set to the empty string, set
EnvKeyValues == {None, "", "secret"}
\* audio chunks (bytes) the speech service may emit
Chunks == {"AAA", "BBB"}
\* the runs (requests) of the model
Runs == {"r1", "r2"}
\* exceptions the pipeline stages raise
Errors == {"NoArticles", "FetchFailed", "NoArticlesProvided", "ComposeFailed",
           "SynthFailed", "ConfigError"}
\* values of os.getenv("OPENAI_API_KEY"): unset, set
OpenAIKeyValues == {None, "sk-key"}
\* values of AUDIO_FORMAT the speech service accepts
AudioFormats == {"wav", "opus", "mp3"}
\* voices of the speech service
Voices == {"alloy", "nova"}
\* characters of a chat reply: whitespace and anything else
Chars == {" ", "a"}
\* article records
ArticleValues == {"art1", "art2"}
\* what the generator reports through logger.exception or by raising
PipelineFault == "pipeline_failed"
JoinFault == "join_expired"

VARIABLES
    API_KEY,          \* module-level API_KEY (api.py:33)
    OPENAI_API_KEY,   \* settings.openai_api_key
    audio_format,     \* settings.audio_format
    settings_voice,   \* settings.voice (ANCHOR_VOICE)
    voice_options,    \* settings.voice_options, read by utils/voice.py
    chunkCap,         \* most chunks the speech service emits in each run
    dcalls,           \* direct calls of the service functions made so far
    dlast,            \* the last direct call: input and outcome
    mongo_client,     \* clients.mongodb._client: 0 = None, n = the n-th
                      \* MongoClient constructed in this process
    openai_client,    \* clients.openai._client: 0 = None, n = the n-th
                      \* OpenAI client constructed in this process
    media_type,       \* media type of the StreamingResponse
    pending,          \* requests not yet received
    header,           \* X-API-Key of the request
    status,           \* HTTP status of the response, 0 = none yet
    cpc,              \* position of the request / of stream_generator
    item,             \* result of the last chunk_queue.get
    chunk_queue,      \* queue.Queue of the run
    error_container,  \* error_container[0]
    finished,         \* finished[0]
    tpc,              \* position of the worker thread
    cur,              \* chunk the worker holds between receiving and putting it
    exc,              \* exception propagating out of _run_streaming_pipeline
    articles,         \* what the Article Source returned
    fetchCalls,       \* invocations of fetch_last_24_hours_articles
    composeCalls,     \* invocations of create_anchor_script
    synthCalls,       \* invocations of generate_anchor_audio_stream
    script,           \* the script the Script Composer returned
    chatCalls,        \* chat-completion requests sent to the service
    ttsCalls,         \* speech requests sent to the service
    response_format,  \* response_format of the speech request
    voice,            \* voice of the speech request
    produced,         \* chunks the Speech Producer has emitted
    pushed,           \* everything the worker has put on the queue
    delivered,        \* chunks yielded to the HTTP layer
    disconnected,     \* the client has disconnected
    pushedAtDisc,     \* number of puts when the client disconnected
    producedAtDisc,   \* number of chunks emitted when the client disconnected
    orphanGet,        \* a cancelled poll whose queue.get still runs in the executor
    joinResult,       \* outcome of thread.join(timeout=5)
    reported          \* faults the generator reported

vars == <<API_KEY, OPENAI_API_KEY, audio_format, settings_voice,
          voice_options, chunkCap, dcalls, dlast, mongo_client,
          openai_client, media_type, pending, header, status, cpc, item,
          chunk_queue, error_container, finished, tpc, cur, exc, articles,
          fetchCalls, composeCalls, synthCalls, script, chatCalls, ttsCalls,
          response_format, voice, produced, pushed, delivered,
          disconnected, pushedAtDisc, producedAtDisc, orphanGet, joinResult,
          reported>>

cfgVars == <<API_KEY, OPENAI_API_KEY, audio_format, settings_voice,
            voice_options, chunkCap>>
directVars == <<dcalls, dlast>>
clientVars == <<mongo_client, openai_client>>
globVars == <<cfgVars, clientVars, directVars, pending>>
callVars == <<script, chatCalls, ttsCalls, response_format, voice>>
reqVars == <<header, status, media_type>>
consVars == <<cpc, item, delivered, joinResult, reported>>
sharedVars == <<chunk_queue, error_container, finished>>
workVars == <<tpc, cur, exc, articles, fetchCalls, composeCalls, synthCalls,
              script, chatCalls, ttsCalls, response_format, voice, produced,
              pushed>>
discVars == <<disconnected, pushedAtDisc, producedAtDisc, orphanGet>>

\* ----------------------------------------------------------------- helpers
Upd(f, r, v) == [f EXCEPT ![r] = v]

\* a queue that hands out the newest item first (queue.LifoQueue)
QueuePutFront(q, x) == <<x>> \o q

\* queue.Queue.put: FIFO, unbounded (maxsize 0), never blocks
QueuePut(q, x) == Append(q, x)

\* queue.Queue.get on a non-empty queue: the oldest item
QueueGet(q) == Head(q)

\* the queue after a successful get
QueueRest(q) == Tail(q)

\* the audio chunks among the items of a sequence (the sentinel left out)
ChunksOf(s) == SelectSeq(s, LAMBDA x : x # None)

\* the sentinels among the items of a sequence
SentinelsOf(s) == SelectSeq(s, LAMBDA x : x = None)

IsPrefix(s, t) == Len(s) <= Len(t) /\ SubSeq(t, 1, Len(s)) = s

\* threading.Thread.is_alive
IsAlive(r) == tpc[r] \notin {"notstarted", "done"}

\* `if not API_KEY` (api.py:35): the secret is unset or empty
NotConfigured == API_KEY = None \/ API_KEY = ""

\* the event loop is single-threaded: while the coroutine of run q sits in
\* the blocking call thread.join(timeout=5), no step of another run that
\* needs the loop is taken
LoopFree(r) == \A q \in Runs \ {r} : cpc[q] # "join"

\* ------------------------------------------------------------------- Init
\* no direct call made yet
NoCall == [fn |-> "none", arts |-> <<>>, voiceArg |-> None, raised |-> None,
           value |-> <<>>, requests |-> 0, voice |-> None]

\* the state of every run before its request arrives, and of the process
\* before its first request
InitRuns ==
    /\ header = [r \in Runs |-> Missing]
    /\ status = [r \in Runs |-> 0]
    /\ cpc = [r \in Runs |-> "idle"]
    /\ item = [r \in Runs |-> None]
    /\ chunk_queue = [r \in Runs |-> <<>>]
    /\ error_container = [r \in Runs |-> None]
    /\ finished = [r \in Runs |-> FALSE]
    /\ tpc = [r \in Runs |-> "notstarted"]
    /\ cur = [r \in Runs |-> None]
    /\ exc = [r \in Runs |-> None]
    /\ articles = [r \in Runs |-> "none"]
    /\ fetchCalls = [r \in Runs |-> 0]
    /\ composeCalls = [r \in Runs |-> 0]
    /\ synthCalls = [r \in Runs |-> 0]
    /\ produced = [r \in Runs |-> <<>>]
    /\ pushed = [r \in Runs |-> <<>>]
    /\ delivered = [r \in Runs |-> <<>>]
    /\ disconnected = [r \in Runs |-> FALSE]
    /\ pushedAtDisc = [r \in Runs |-> 0]
    /\ producedAtDisc = [r \in Runs |-> 0]
    /\ orphanGet = [r \in Runs |-> FALSE]
    /\ joinResult = [r \in Runs |-> "none"]
    /\ reported = [r \in Runs |-> {}]
    /\ media_type = [r \in Runs |-> None]
    /\ script = [r \in Runs |-> None]
    /\ chatCalls = [r \in Runs |-> 0]
    /\ ttsCalls = [r \in Runs |-> 0]
    /\ response_format = [r \in Runs |-> None]
    /\ voice = [r \in Runs |-> None]
    /\ mongo_client = 0
    /\ openai_client = 0
    /\ dcalls = 0
    /\ dlast = NoCall

\* one request, any configuration of the two secrets, the default
\* AUDIO_FORMAT (config.py:34) or another one
Init ==
    /\ API_KEY \in EnvKeyValues
    /\ OPENAI_API_KEY \in OpenAIKeyValues
    /\ audio_format \in AudioFormats
    /\ settings_voice = "alloy"
    /\ voice_options = {}
    /\ chunkCap = [r \in Runs |-> MaxChunks]
    /\ pending = {"r1"}
    /\ InitRuns

\* two requests in flight together, both secrets configured; the script of
\* the second run yields an empty audio stream
InitConc ==
    /\ API_KEY = "secret"
    /\ OPENAI_API_KEY = "sk-key"
    /\ audio_format = "wav"
    /\ settings_voice = "alloy"
    /\ voice_options = {}
    /\ chunkCap = [r \in Runs |-> IF r = "r1" THEN ConcChunks ELSE 0]
    /\ pending = Runs
    /\ InitRuns

\* no request; a caller in the same process (main.py, tests/test_latency.py)
\* calls the service functions directly, under any configuration
InitDirect ==
    /\ API_KEY = "secret"
    /\ OPENAI_API_KEY \in OpenAIKeyValues
    /\ audio_format \in AudioFormats
    /\ settings_voice \in Voices
    /\ voice_options \in SUBSET Voices
    /\ chunkCap = [r \in Runs |-> MaxChunks]
    /\ pending = {}
    /\ InitRuns

\* ------------------------------------------------------- request handling
\* a client sends POST /generate-anchor-stream, with or without the header
Request(r) ==
    /\ r \in pending
    /\ pending' = pending \ {r}
    /\ \E h \in HeaderValues \cup {Missing} : header' = Upd(header, r, h)
    /\ cpc' = Upd(cpc, r, "auth")
    /\ UNCHANGED <<cfgVars, clientVars, directVars, status, media_type, item,
                   delivered, joinResult, reported>>
    /\ UNCHANGED <<sharedVars, workVars, discVars>>

\* the status the dependency verify_api_key leaves the request with:
\* Header(...) is a required parameter, so a request without the header is
\* answered 422 by the framework before the body of verify_api_key runs;
\* otherwise the body compares the header with API_KEY
verify_api_key(h) ==
    IF h = Missing THEN 422
    ELSE IF h # API_KEY THEN 401
    ELSE 200

\* StreamingResponse(stream_generator(), media_type="audio/opus")
ResponseMediaType == "audio/opus"

\* dependencies=[Depends(verify_api_key)], then the body of
\* generate_anchor_stream: builds the StreamingResponse (status 200)
Authenticate(r) ==
    /\ cpc[r] = "auth"
    /\ LoopFree(r)
    /\ status' = Upd(status, r, verify_api_key(header[r]))
    /\ cpc' = Upd(cpc, r, IF verify_api_key(header[r]) = 200
                             THEN "start" ELSE "rejected")
    /\ media_type' = Upd(media_type, r,
                         IF verify_api_key(header[r]) = 200
                            THEN ResponseMediaType ELSE None)
    /\ UNCHANGED <<globVars, header, item, delivered, joinResult,
                   reported>>
    /\ UNCHANGED <<sharedVars, workVars, discVars>>

\* stream_generator up to thread.start(): fresh queue, error slot and flag
Start(r) ==
    /\ cpc[r] = "start"
    /\ LoopFree(r)
    /\ chunk_queue' = Upd(chunk_queue, r, <<>>)
    /\ error_container' = Upd(error_container, r, None)
    /\ finished' = Upd(finished, r, FALSE)
    /\ tpc' = Upd(tpc, r, "fetch")
    /\ cpc' = Upd(cpc, r, "poll")
    /\ UNCHANGED <<globVars, reqVars, item, delivered, joinResult,
                   reported>>
    /\ UNCHANGED <<cur, exc, articles, fetchCalls, composeCalls, synthCalls,
                   callVars, produced, pushed, discVars>>

\* ---------------------------------------------------------- worker thread
\* the pipeline without its `if not articles` check
AfterFetchNoCheck(res) ==
    IF res = "fail" THEN <<"except", "FetchFailed">>
    ELSE <<"compose", None>>

\* where _run_streaming_pipeline goes after fetch_last_24_hours_articles
\* answered res: the call raised, or `if not articles: raise RuntimeError`,
\* or on to create_anchor_script.  <<position, exception>>
AfterFetch(res) ==
    IF res = "fail" THEN <<"except", "FetchFailed">>
    ELSE IF res = "empty" THEN <<"except", "NoArticles">>
    ELSE <<"compose", None>>

\* _get_client of clients/mongodb.py and clients/openai.py, the test
\* `if _client is None` on the handle c: use the cached handle (go on at
\* cont), or go and construct one.  The test and the assignment are separate
\* statements with no lock around them.
CachedOrConstruct(c, cont, construct) == IF c = 0 THEN construct ELSE cont

\* _run_streaming_pipeline, first stage: fetch_last_24_hours_articles ->
\* get_articles_last_24_hours, up to the test in _get_client
Fetch(r) ==
    /\ tpc[r] = "fetch"
    /\ fetchCalls' = Upd(fetchCalls, r, fetchCalls[r] + 1)
    /\ tpc' = Upd(tpc, r, CachedOrConstruct(mongo_client, "query", "mongo_new"))
    /\ UNCHANGED <<globVars, reqVars, consVars, sharedVars, discVars>>
    /\ UNCHANGED <<cur, exc, articles, composeCalls, synthCalls, callVars,
                   produced, pushed>>

\* clients/mongodb.py _get_client: _client = MongoClient(settings.mongodb_uri)
MongoNew(r) ==
    /\ tpc[r] = "mongo_new"
    /\ mongo_client' = mongo_client + 1
    /\ tpc' = Upd(tpc, r, "query")
    /\ UNCHANGED <<cfgVars, directVars, openai_client, pending, reqVars,
                   consVars, sharedVars, discVars>>
    /\ UNCHANGED <<cur, exc, articles, fetchCalls, composeCalls, synthCalls,
                   callVars, produced, pushed>>

\* get_articles_last_24_hours: collection.find(...) answers, then the
\* `if not articles` of the pipeline
Query(r) ==
    /\ tpc[r] = "query"
    /\ \E res \in {"some", "empty", "fail"} :
          /\ articles' = Upd(articles, r, IF res = "fail" THEN "none" ELSE res)
          /\ tpc' = Upd(tpc, r, AfterFetch(res)[1])
          /\ exc' = Upd(exc, r, AfterFetch(res)[2])
    /\ UNCHANGED <<globVars, reqVars, consVars, sharedVars, discVars>>
    /\ UNCHANGED <<cur, fetchCalls, composeCalls, synthCalls, callVars,
                   produced, pushed>>

\* a _get_client that constructs a handle without looking at the key
OpenAIGetClientNoKeyCheck(cont) ==
    IF openai_client # 0 THEN <<cont, None>>
    ELSE <<IF cont = "chat" THEN "openai_new_chat" ELSE "openai_new_tts", None>>

\* clients/openai.py _get_client, called on the way to the request cont
\* ("chat" or "tts"): the cached handle, or EnvironmentError when the key is
\* not set, or the construction of a handle.  <<position, exception>>
OpenAIGetClient(cont) ==
    IF openai_client # 0 THEN <<cont, None>>
    ELSE IF OPENAI_API_KEY = None THEN <<"except", "ConfigError">>
    ELSE <<IF cont = "chat" THEN "openai_new_chat" ELSE "openai_new_tts", None>>

\* create_anchor_script(articles): raises ValueError on an empty collection,
\* otherwise goes on to chat_completion, which starts with _get_client.
\* <<position, exception>>
create_anchor_script(arts) ==
    IF arts # "some" THEN <<"except", "NoArticlesProvided">>
    ELSE OpenAIGetClient("chat")

\* _run_streaming_pipeline, second stage: the Script Composer call
Compose(r) ==
    /\ tpc[r] = "compose"
    /\ composeCalls' = Upd(composeCalls, r, composeCalls[r] + 1)
    /\ tpc' = Upd(tpc, r, create_anchor_script(articles[r])[1])
    /\ exc' = Upd(exc, r, create_anchor_script(articles[r])[2])
    /\ UNCHANGED <<globVars, reqVars, consVars, sharedVars, discVars>>
    /\ UNCHANGED <<cur, articles, fetchCalls, synthCalls, callVars, produced,
                   pushed>>

\* clients/openai.py _get_client: _client = OpenAI(api_key=...)
OpenAINew(r) ==
    /\ tpc[r] \in {"openai_new_chat", "openai_new_tts"}
    /\ openai_client' = openai_client + 1
    /\ tpc' = Upd(tpc, r, IF tpc[r] = "openai_new_chat" THEN "chat" ELSE "tts")
    /\ UNCHANGED <<cfgVars, directVars, mongo_client, pending, reqVars,
                   consVars, sharedVars, discVars>>
    /\ UNCHANGED <<cur, exc, articles, fetchCalls, composeCalls, synthCalls,
                   callVars, produced, pushed>>

\* a pipeline that swallows a failure of the composer and goes on to the
\* speech stage without a script
ChatFailureIgnored(r) ==
    /\ tpc[r] = "chat"
    /\ chatCalls' = Upd(chatCalls, r, chatCalls[r] + 1)
    /\ \E ok \in BOOLEAN :
          /\ tpc' = Upd(tpc, r, "synth")
          /\ exc' = Upd(exc, r, None)
          /\ script' = Upd(script, r, IF ok THEN "script" ELSE None)
    /\ UNCHANGED <<globVars, reqVars, consVars, sharedVars, discVars>>
    /\ UNCHANGED <<cur, articles, fetchCalls, composeCalls, synthCalls,
                   ttsCalls, response_format, voice, produced, pushed>>

\* chat_completion: client.chat.completions.create(...) answers or raises;
\* `script = create_anchor_script(articles)` when it answers
Chat(r) ==
    /\ tpc[r] = "chat"
    /\ chatCalls' = Upd(chatCalls, r, chatCalls[r] + 1)
    /\ \E ok \in BOOLEAN :
          /\ tpc' = Upd(tpc, r, IF ok THEN "synth" ELSE "except")
          /\ exc' = Upd(exc, r, IF ok THEN None ELSE "ComposeFailed")
          /\ script' = Upd(script, r, IF ok THEN "script" ELSE None)
    /\ UNCHANGED <<globVars, reqVars, consVars, sharedVars, discVars>>
    /\ UNCHANGED <<cur, articles, fetchCalls, composeCalls, synthCalls,
                   ttsCalls, response_format, voice, produced, pushed>>

\* _run_streaming_pipeline, third stage: generate_anchor_audio_stream(script),
\* first iteration of generate_speech_stream up to _get_client
Synth(r) ==
    /\ tpc[r] = "synth"
    /\ synthCalls' = Upd(synthCalls, r, synthCalls[r] + 1)
    /\ tpc' = Upd(tpc, r, OpenAIGetClient("tts")[1])
    /\ exc' = Upd(exc, r, OpenAIGetClient("tts")[2])
    /\ UNCHANGED <<globVars, reqVars, consVars, sharedVars, discVars>>
    /\ UNCHANGED <<cur, articles, fetchCalls, composeCalls, callVars, produced,
                   pushed>>

\* `voice = voice or settings.voice`: the voice of the request when the
\* caller passed v (None: no voice argument)
SelectVoice(v) == IF v # None THEN v ELSE settings_voice

\* generate_speech_stream: with_streaming_response.create(model, voice,
\* input, response_format=settings.audio_format) opens the stream or raises;
\* the pipeline passes no voice
Tts(r) ==
    /\ tpc[r] = "tts"
    /\ ttsCalls' = Upd(ttsCalls, r, ttsCalls[r] + 1)
    /\ response_format' = Upd(response_format, r, audio_format)
    /\ voice' = Upd(voice, r, SelectVoice(None))
    /\ \E ok \in BOOLEAN :
          /\ tpc' = Upd(tpc, r, IF ok THEN "next" ELSE "except")
          /\ exc' = Upd(exc, r, IF ok THEN None ELSE "SynthFailed")
    /\ UNCHANGED <<globVars, reqVars, consVars, sharedVars, discVars>>
    /\ UNCHANGED <<cur, articles, fetchCalls, composeCalls, synthCalls,
                   script, chatCalls, produced, pushed>>

\* a worker that collects the chunks and hands none over while the speech
\* stream is still open
NextChunkNoPut(r) ==
    /\ tpc[r] = "next"
    /\ \/ \E c \in Chunks :
             /\ Len(produced[r]) < chunkCap[r]
             /\ produced' = Upd(produced, r, Append(produced[r], c))
             /\ cur' = Upd(cur, r, c)
             /\ tpc' = Upd(tpc, r, "next")
             /\ UNCHANGED exc
       \/ /\ tpc' = Upd(tpc, r, "finally_flag")
          /\ UNCHANGED <<produced, cur, exc>>
       \/ /\ tpc' = Upd(tpc, r, "except")
          /\ exc' = Upd(exc, r, "SynthFailed")
          /\ UNCHANGED <<produced, cur>>
    /\ UNCHANGED <<globVars, reqVars, consVars, sharedVars, discVars>>
    /\ UNCHANGED <<articles, fetchCalls, composeCalls, synthCalls, callVars,
                   pushed>>

\* one iteration of `for chunk in response.iter_bytes(...)`, relayed by the
\* two `yield chunk`: the service emits a chunk, ends the stream, or fails
NextChunk(r) ==
    /\ tpc[r] = "next"
    /\ \/ \E c \in Chunks :
             /\ Len(produced[r]) < chunkCap[r]
             /\ produced' = Upd(produced, r, Append(produced[r], c))
             /\ cur' = Upd(cur, r, c)
             /\ tpc' = Upd(tpc, r, "put")
             /\ UNCHANGED exc
       \/ /\ tpc' = Upd(tpc, r, "finally_flag")
          /\ UNCHANGED <<produced, cur, exc>>
       \/ /\ tpc' = Upd(tpc, r, "except")
          /\ exc' = Upd(exc, r, "SynthFailed")
          /\ UNCHANGED <<produced, cur>>
    /\ UNCHANGED <<globVars, reqVars, consVars, sharedVars, discVars>>
    /\ UNCHANGED <<articles, fetchCalls, composeCalls, synthCalls, callVars,
                   pushed>>

\* a hand-off queue of capacity one (queue.Queue(maxsize=1)): put waits
\* while the queue is full
PutBounded(r) ==
    /\ tpc[r] = "put"
    /\ Len(chunk_queue[r]) < 1
    /\ chunk_queue' = Upd(chunk_queue, r, QueuePut(chunk_queue[r], cur[r]))
    /\ pushed' = Upd(pushed, r, Append(pushed[r], cur[r]))
    /\ cur' = Upd(cur, r, None)
    /\ tpc' = Upd(tpc, r, "next")
    /\ UNCHANGED <<globVars, reqVars, consVars, discVars>>
    /\ UNCHANGED <<error_container, finished, exc, articles, fetchCalls,
                   composeCalls, synthCalls, callVars, produced>>

\* a hand-off queue created once at module level and shared by all runs
PutShared(r) ==
    /\ tpc[r] = "put"
    /\ chunk_queue' = [q \in Runs |-> QueuePut(chunk_queue[q], cur[r])]
    /\ pushed' = Upd(pushed, r, Append(pushed[r], cur[r]))
    /\ cur' = Upd(cur, r, None)
    /\ tpc' = Upd(tpc, r, "next")
    /\ UNCHANGED <<globVars, reqVars, consVars, discVars>>
    /\ UNCHANGED <<error_container, finished, exc, articles, fetchCalls,
                   composeCalls, synthCalls, callVars, produced>>

\* run_pipeline: chunk_queue.put(chunk)
Put(r) ==
    /\ tpc[r] = "put"
    /\ chunk_queue' = Upd(chunk_queue, r, QueuePut(chunk_queue[r], cur[r]))
    /\ pushed' = Upd(pushed, r, Append(pushed[r], cur[r]))
    /\ cur' = Upd(cur, r, None)
    /\ tpc' = Upd(tpc, r, "next")
    /\ UNCHANGED <<globVars, reqVars, consVars, discVars>>
    /\ UNCHANGED <<error_container, finished, exc, articles, fetchCalls,
                   composeCalls, synthCalls, callVars, produced>>

\* a worker that signals completion only at the end of its try body: a
\* raising stage records the error and the thread ends without flag or marker
ExceptNoFinally(r) ==
    /\ tpc[r] = "except"
    /\ error_container' = Upd(error_container, r, exc[r])
    /\ exc' = Upd(exc, r, None)
    /\ tpc' = Upd(tpc, r, "done")
    /\ UNCHANGED <<globVars, reqVars, consVars, discVars>>
    /\ UNCHANGED <<chunk_queue, finished, cur, articles, fetchCalls,
                   composeCalls, synthCalls, callVars, produced,
                   pushed>>

\* run_pipeline: `except Exception as exc: error_container[0] = exc`,
\* then on to the finally clause
Except(r) ==
    /\ tpc[r] = "except"
    /\ error_container' = Upd(error_container, r, exc[r])
    /\ exc' = Upd(exc, r, None)
    /\ tpc' = Upd(tpc, r, "finally_flag")
    /\ UNCHANGED <<globVars, reqVars, consVars, discVars>>
    /\ UNCHANGED <<chunk_queue, finished, cur, articles, fetchCalls,
                   composeCalls, synthCalls, callVars, produced,
                   pushed>>

\* run_pipeline, finally clause: finished[0] = True
FinallyFlag(r) ==
    /\ tpc[r] = "finally_flag"
    /\ finished' = Upd(finished, r, TRUE)
    /\ tpc' = Upd(tpc, r, "finally_put")
    /\ UNCHANGED <<globVars, reqVars, consVars, discVars>>
    /\ UNCHANGED <<chunk_queue, error_container, cur, exc, articles,
                   fetchCalls, composeCalls, synthCalls, callVars, produced,
                   pushed>>

\* a finally clause that puts the marker and then one more copy of it
FinallyPutTwice(r) ==
    /\ tpc[r] = "finally_put"
    /\ chunk_queue' = Upd(chunk_queue, r,
                          QueuePut(QueuePut(chunk_queue[r], None), None))
    /\ pushed' = Upd(pushed, r, Append(Append(pushed[r], None), None))
    /\ tpc' = Upd(tpc, r, "done")
    /\ UNCHANGED <<globVars, reqVars, consVars, discVars>>
    /\ UNCHANGED <<error_container, finished, cur, exc, articles, fetchCalls,
                   composeCalls, synthCalls, callVars, produced>>

\* run_pipeline, finally clause: chunk_queue.put(None); the thread ends
FinallyPut(r) ==
    /\ tpc[r] = "finally_put"
    /\ chunk_queue' = Upd(chunk_queue, r, QueuePut(chunk_queue[r], None))
    /\ pushed' = Upd(pushed, r, Append(pushed[r], None))
    /\ tpc' = Upd(tpc, r, "done")
    /\ UNCHANGED <<globVars, reqVars, consVars, discVars>>
    /\ UNCHANGED <<error_container, finished, cur, exc, articles, fetchCalls,
                   composeCalls, synthCalls, callVars, produced>>

Worker(r) ==
    \/ Fetch(r) \/ MongoNew(r) \/ Query(r)
    \/ Compose(r) \/ OpenAINew(r) \/ Chat(r)
    \/ Synth(r) \/ Tts(r) \/ NextChunk(r) \/ Put(r)
    \/ Except(r) \/ FinallyFlag(r) \/ FinallyPut(r)

\* ------------------------------------------------ consumer (event loop side)
\* chunk_queue.get(timeout=1) in the executor: the oldest item when there is
\* one, queue.Empty when the queue stays empty for the whole timeout
Poll(r) ==
    /\ cpc[r] = "poll"
    /\ IF chunk_queue[r] # <<>>
          THEN /\ item' = Upd(item, r, QueueGet(chunk_queue[r]))
               /\ chunk_queue' = Upd(chunk_queue, r, QueueRest(chunk_queue[r]))
               /\ cpc' = Upd(cpc, r, "got")
          ELSE /\ cpc' = Upd(cpc, r, "empty")
               /\ UNCHANGED <<item, chunk_queue>>
    /\ UNCHANGED <<globVars, reqVars, workVars, discVars>>
    /\ UNCHANGED <<error_container, finished, delivered, joinResult, reported>>

\* a consumer that gives up on the first poll that times out
OnEmptyBreak(fin) == "afterloop"

\* `except queue.Empty: if finished[0]: break` / `continue`, back in the
\* coroutine: where the consumer goes on reading the flag as fin
OnEmpty(fin) == IF fin THEN "afterloop" ELSE "poll"

Empty(r) ==
    /\ cpc[r] = "empty"
    /\ LoopFree(r)
    /\ cpc' = Upd(cpc, r, OnEmpty(finished[r]))
    /\ UNCHANGED <<globVars, reqVars, workVars, discVars, sharedVars>>
    /\ UNCHANGED <<item, delivered, joinResult, reported>>

\* `if chunk is None: break` / `yield chunk`
Got(r) ==
    /\ cpc[r] = "got"
    /\ LoopFree(r)
    /\ IF item[r] = None
          THEN /\ cpc' = Upd(cpc, r, "afterloop")
               /\ UNCHANGED delivered
          ELSE /\ delivered' = Upd(delivered, r, Append(delivered[r], item[r]))
               /\ cpc' = Upd(cpc, r, "yielded")
    /\ UNCHANGED <<globVars, reqVars, workVars, discVars, sharedVars>>
    /\ UNCHANGED <<item, joinResult, reported>>

\* the HTTP layer has written the chunk and asks for the next one
Resume(r) ==
    /\ cpc[r] = "yielded"
    /\ LoopFree(r)
    /\ cpc' = Upd(cpc, r, "poll")
    /\ UNCHANGED <<globVars, reqVars, workVars, discVars, sharedVars>>
    /\ UNCHANGED <<item, delivered, joinResult, reported>>

\* a generator that never looks at error_container
AfterLoopSilent(r) ==
    /\ cpc[r] = "afterloop"
    /\ LoopFree(r)
    /\ cpc' = Upd(cpc, r, "join")
    /\ UNCHANGED <<globVars, reqVars, workVars, discVars, sharedVars>>
    /\ UNCHANGED <<item, delivered, joinResult, reported>>

\* a generator that also yields the error text to the client
AfterLoopErrorPayload(r) ==
    /\ cpc[r] = "afterloop"
    /\ LoopFree(r)
    /\ reported' = Upd(reported, r,
                       IF error_container[r] # None
                          THEN reported[r] \cup {PipelineFault}
                          ELSE reported[r])
    /\ delivered' = Upd(delivered, r,
                        IF error_container[r] # None
                           THEN Append(delivered[r], error_container[r])
                           ELSE delivered[r])
    /\ cpc' = Upd(cpc, r, "join")
    /\ UNCHANGED <<globVars, reqVars, workVars, discVars, sharedVars>>
    /\ UNCHANGED <<item, joinResult>>

\* after the loop: `if error_container[0]: logger.exception(...)`
AfterLoop(r) ==
    /\ cpc[r] = "afterloop"
    /\ LoopFree(r)
    /\ reported' = Upd(reported, r,
                       IF error_container[r] # None
                          THEN reported[r] \cup {PipelineFault}
                          ELSE reported[r])
    /\ cpc' = Upd(cpc, r, "join")
    /\ UNCHANGED <<globVars, reqVars, workVars, discVars, sharedVars>>
    /\ UNCHANGED <<item, delivered, joinResult>>

\* a generator that swallows the cancellation and goes on where it was
DisconnectIgnored(r) ==
    /\ cpc[r] \in {"poll", "empty", "got", "yielded"}
    /\ LoopFree(r)
    /\ ~disconnected[r]
    /\ disconnected' = Upd(disconnected, r, TRUE)
    /\ pushedAtDisc' = Upd(pushedAtDisc, r, Len(pushed[r]))
    /\ producedAtDisc' = Upd(producedAtDisc, r, Len(produced[r]))
    /\ UNCHANGED <<orphanGet, cpc>>
    /\ UNCHANGED <<globVars, reqVars, workVars, sharedVars>>
    /\ UNCHANGED <<item, delivered, joinResult, reported>>

\* the client goes away: the generator is cancelled at its await or closed at
\* its yield and control passes to the finally clause; a queue.get already
\* running in the executor is not interrupted
Disconnect(r) ==
    /\ cpc[r] \in {"poll", "empty", "got", "yielded"}
    /\ LoopFree(r)
    /\ disconnected' = Upd(disconnected, r, TRUE)
    /\ pushedAtDisc' = Upd(pushedAtDisc, r, Len(pushed[r]))
    /\ producedAtDisc' = Upd(producedAtDisc, r, Len(produced[r]))
    /\ orphanGet' = Upd(orphanGet, r, cpc[r] = "poll")
    /\ cpc' = Upd(cpc, r, "join")
    /\ UNCHANGED <<globVars, reqVars, workVars, sharedVars>>
    /\ UNCHANGED <<item, delivered, joinResult, reported>>

\* the queue.get of a cancelled poll completes in the executor thread; its
\* result is dropped
OrphanGet(r) ==
    /\ orphanGet[r]
    /\ orphanGet' = Upd(orphanGet, r, FALSE)
    /\ chunk_queue' = Upd(chunk_queue, r,
                          IF chunk_queue[r] # <<>>
                             THEN QueueRest(chunk_queue[r])
                             ELSE chunk_queue[r])
    /\ UNCHANGED <<globVars, reqVars, workVars, consVars>>
    /\ UNCHANGED <<error_container, finished, disconnected, pushedAtDisc,
                   producedAtDisc>>

\* thread.join(timeout=5): returns when the thread has ended or when the
\* timeout expires; the return value is not looked at and is_alive is not
\* called
ThreadJoin(r) == IF tpc[r] = "done" THEN "joined" ELSE "expired"

\* finally clause of stream_generator, then the generator returns
Join(r) ==
    /\ cpc[r] = "join"
    /\ LoopFree(r)
    /\ joinResult' = Upd(joinResult, r, ThreadJoin(r))
    /\ cpc' = Upd(cpc, r, "returned")
    /\ UNCHANGED <<globVars, reqVars, workVars, discVars, sharedVars>>
    /\ UNCHANGED <<item, delivered, reported>>

Consumer(r) ==
    \/ Poll(r) \/ Empty(r) \/ Got(r) \/ Resume(r) \/ AfterLoop(r) \/ Join(r)

\* ------------------------------------------- direct calls of the services
\* all sequences over S of length at most n
SeqsUpTo(S, n) == UNION {[1..k -> S] : k \in 0..n}

\* texts the chat model may return (message.content)
Texts == SeqsUpTo(Chars, MaxText)

\* article collections a caller may pass
ArticleLists == SeqsUpTo(ArticleValues, MaxArticles)

\* str.strip(): leading, then trailing whitespace removed
RECURSIVE LStrip(_)
LStrip(t) == IF t # <<>> /\ Head(t) = " " THEN LStrip(Tail(t)) ELSE t

RECURSIVE RStrip(_)
RStrip(t) ==
    IF t # <<>> /\ t[Len(t)] = " " THEN RStrip(SubSeq(t, 1, Len(t) - 1)) ELSE t

Strip(t) == RStrip(LStrip(t))

\* number of OpenAI handles a call constructs, given where _get_client went
Built(gc) == IF gc[1] \in {"openai_new_chat", "openai_new_tts"} THEN 1 ELSE 0

\* chat_completion(messages): _get_client, then the request (ok: it
\* succeeded, with message.content = text), then content.strip()
chat_completion(ok, text) ==
    LET gc == OpenAIGetClient("chat") IN
    IF gc[2] # None
       THEN [raised |-> gc[2], value |-> <<>>, requests |-> 0, built |-> 0]
    ELSE IF ~ok
       THEN [raised |-> "ComposeFailed", value |-> <<>>, requests |-> 1,
             built |-> Built(gc)]
    ELSE [raised |-> None, value |-> Strip(text), requests |-> 1,
          built |-> Built(gc)]

\* a composer without its `if not articles` check
ScriptOfNoCheck(arts, ok, text) == chat_completion(ok, text)

\* create_anchor_script(articles) on a concrete collection
ScriptOf(arts, ok, text) ==
    IF Len(arts) = 0
       THEN [raised |-> "NoArticlesProvided", value |-> <<>>, requests |-> 0,
             built |-> 0]
    ELSE chat_completion(ok, text)

\* a caller invokes create_anchor_script(arts)
DirectCompose ==
    /\ dcalls < MaxCalls
    /\ dcalls' = dcalls + 1
    /\ \E arts \in ArticleLists, ok \in BOOLEAN, text \in Texts :
          /\ dlast' = [fn |-> "compose", arts |-> arts, voiceArg |-> None,
                       raised |-> ScriptOf(arts, ok, text).raised,
                       value |-> ScriptOf(arts, ok, text).value,
                       requests |-> ScriptOf(arts, ok, text).requests,
                       voice |-> None]
          /\ openai_client' = openai_client + ScriptOf(arts, ok, text).built
    /\ UNCHANGED <<cfgVars, mongo_client, pending, reqVars, consVars,
                   sharedVars, workVars, discVars>>

\* generate_speech_stream(text, voice=v), first iteration: _get_client, then
\* the request with the selected voice (ok: the stream opened)
SpeechOf(v, ok) ==
    LET gc == OpenAIGetClient("tts") IN
    IF gc[2] # None
       THEN [raised |-> gc[2], requests |-> 0, built |-> 0, voice |-> None]
    ELSE [raised |-> IF ok THEN None ELSE "SynthFailed", requests |-> 1,
          built |-> Built(gc), voice |-> SelectVoice(v)]

\* a caller iterates generate_anchor_audio_stream(script) /
\* generate_speech_stream(text, voice=v)
DirectSpeech ==
    /\ dcalls < MaxCalls
    /\ dcalls' = dcalls + 1
    /\ \E v \in Voices \cup {None}, ok \in BOOLEAN :
          /\ dlast' = [fn |-> "speech", arts |-> <<>>, voiceArg |-> v,
                       raised |-> SpeechOf(v, ok).raised,
                       value |-> <<>>,
                       requests |-> SpeechOf(v, ok).requests,
                       voice |-> SpeechOf(v, ok).voice]
          /\ openai_client' = openai_client + SpeechOf(v, ok).built
    /\ UNCHANGED <<cfgVars, mongo_client, pending, reqVars, consVars,
                   sharedVars, workVars, discVars>>

NextDirect == DirectCompose \/ DirectSpeech

SpecDirect == InitDirect /\ [][NextDirect]_vars

\* ------------------------------------------------------------------- Next
Next ==
    \E r \in Runs :
        \/ Request(r) \/ Authenticate(r) \/ Start(r)
        \/ Worker(r)
        \/ Consumer(r)
        \/ Disconnect(r) \/ OrphanGet(r)

Spec == Init /\ [][Next]_vars

SpecConc == InitConc /\ [][Next]_vars

\* the event loop and its executor keep running the consumer of a run, and
\* the operating system keeps scheduling the worker's own statements (the
\* upstream calls are not assumed to return)
FairSpec ==
    /\ Spec
    /\ \A r \in Runs : WF_vars(Consumer(r))
    /\ \A r \in Runs : WF_vars(Put(r) \/ Except(r) \/ FinallyFlag(r)
                                  \/ FinallyPut(r))

\* FairSpec for the runs in which every upstream call (article query, chat
\* completion, speech stream) returns or raises
FairSpecUpstream ==
    /\ FairSpec
    /\ \A r \in Runs : WF_vars(Worker(r))

TypeOK ==
    /\ API_KEY \in EnvKeyValues
    /\ pending \subseteq Runs
    /\ \A r \in Runs :
          /\ header[r] \in HeaderValues \cup {Missing}
          /\ status[r] \in {0, 200, 401, 422}
          /\ cpc[r] \in {"idle", "auth", "rejected", "start", "poll", "empty",
                         "got", "yielded", "afterloop", "join", "returned"}
          /\ tpc[r] \in {"notstarted", "fetch", "mongo_new", "query",
                         "compose", "openai_new_chat", "chat", "synth",
                         "openai_new_tts", "tts", "next",
                         "put", "except", "finally_flag", "finally_put",
                         "done"}
          /\ error_container[r] \in Errors \cup {None}
          /\ finished[r] \in BOOLEAN
          /\ script[r] \in {None, "script"}
          /\ Len(produced[r]) <= chunkCap[r]
          /\ reported[r] \subseteq {PipelineFault, JoinFault}

\* ------------------------------------------------------------------ claims
\* the request of run r was let through to the streaming generator
Streaming(r) == status[r] = 200

\* the generator of run r has returned after a run without client disconnect
EndedConnected(r) ==
    cpc[r] = "returned" /\ Streaming(r) /\ ~disconnected[r]

\* C1: in a run whose three stages succeed and whose client stays connected,
\* the chunks yielded to the HTTP response are exactly the chunks the Speech
\* Producer emitted, in the same order, under every interleaving.
C1_DeliveredEqualsProduced ==
    \A r \in Runs :
        (EndedConnected(r) /\ error_container[r] = None)
            => delivered[r] = produced[r]

\* C2: in every state the chunks delivered to the HTTP layer are a prefix of
\* the chunks the producer has pushed so far (no reordering, no duplicate).
C2_DeliveredPrefixOfPushed ==
    \A r \in Runs : IsPrefix(delivered[r], ChunksOf(pushed[r]))

C2_Witness ==
    \E r \in Runs :
        /\ Len(delivered[r]) = 2
        /\ delivered[r][1] # delivered[r][2]
        /\ Len(ChunksOf(pushed[r])) = 3

\* C3: a request whose X-API-Key is missing or differs from the configured
\* secret is answered 401 and causes no pipeline work: no worker thread, no
\* Article Source, Script Composer or Speech Producer call.
C3_BadKeyGets401AndNoWork ==
    \A r \in Runs :
        (cpc[r] \notin {"idle", "auth"}
           /\ (header[r] = Missing \/ header[r] # API_KEY))
            => /\ status[r] = 401
               /\ tpc[r] = "notstarted"
               /\ fetchCalls[r] = 0 /\ composeCalls[r] = 0 /\ synthCalls[r] = 0

\* C4: when ANCHOR_API_KEY is not configured every request is rejected,
\* whatever the client sends in X-API-Key; no request reaches running.
C4_UnconfiguredRejectsAll ==
    NotConfigured => \A r \in Runs : ~Streaming(r) /\ tpc[r] = "notstarted"

\* C5: when stream_generator returns (after success, upstream failure or
\* client disconnect) the worker thread is no longer alive.
C5_WorkerDeadAtReturn ==
    \A r \in Runs : (cpc[r] = "returned" /\ Streaming(r)) => ~IsAlive(r)

\* C6: if the bounded join expires while the worker is still running, the run
\* reports a fatal error; the generator never returns silently with the
\* worker alive.
C6_JoinExpiryReported ==
    \A r \in Runs :
        (cpc[r] = "returned" /\ joinResult[r] = "expired")
            => JoinFault \in reported[r]

\* C7: after the client disconnects, apart from at most one chunk in flight,
\* the worker requests no further chunk from the Speech Producer and puts no
\* further chunk on the queue.
C7_NoProductionAfterDisconnect ==
    \A r \in Runs :
        disconnected[r]
            => /\ Len(produced[r]) - producedAtDisc[r] <= 1
               /\ Len(ChunksOf(pushed[r])) - pushedAtDisc[r] <= 1

\* C8: once the producer has terminated (by success or by a failure in any
\* stage) and the client stays connected, the consumer eventually leaves its
\* polling loop and the stream ends.
C8_ProducerDoneLeadsToStreamEnd ==
    \A r \in Runs :
        (tpc[r] = "done" /\ ~disconnected[r])
            ~> (cpc[r] = "returned" \/ disconnected[r])

C8_Witness ==
    \E r \in Runs :
        /\ EndedConnected(r)
        /\ tpc[r] = "done"
        /\ error_container[r] \in {"NoArticles", "ComposeFailed", "SynthFailed"}

\* C9: when the Article Source returns an empty collection the stream ends
\* with zero audio bytes delivered, and neither the Script Composer nor the
\* Speech Producer is invoked in that run.
C9_EmptyArticlesZeroBytes ==
    \A r \in Runs :
        articles[r] = "empty"
            => /\ delivered[r] = <<>>
               /\ composeCalls[r] = 0
               /\ synthCalls[r] = 0
               /\ produced[r] = <<>>
               /\ (tpc[r] = "done" => error_container[r] = "NoArticles")

C9_Witness ==
    \E r \in Runs :
        articles[r] = "empty" /\ EndedConnected(r) /\ tpc[r] = "done"

\* C10: the producer pushes exactly one terminal marker, after its last
\* chunk, on success and on failure alike; no chunk follows the marker.
C10_OneTerminalMarkerLast ==
    \A r \in Runs :
        /\ Len(SentinelsOf(pushed[r])) <= 1
        /\ \A i \in 1..Len(pushed[r]) :
              pushed[r][i] = None => i = Len(pushed[r])
        /\ tpc[r] = "done"
              => /\ Len(SentinelsOf(pushed[r])) = 1
                 /\ ChunksOf(pushed[r]) = produced[r]

C10_Witness ==
    \E r \in Runs :
        /\ tpc[r] = "done"
        /\ error_container[r] = "SynthFailed"
        /\ Len(ChunksOf(pushed[r])) = 2

\* everything that belongs to run r alone
RunState(r) ==
    <<header[r], status[r], media_type[r], cpc[r], item[r], chunk_queue[r],
      error_container[r], finished[r], tpc[r], cur[r], exc[r], articles[r],
      fetchCalls[r], composeCalls[r], synthCalls[r], chatCalls[r],
      ttsCalls[r], script[r], produced[r], pushed[r], delivered[r], disconnected[r],
      orphanGet[r], joinResult[r], reported[r]>>

\* the chunk the consumer of run r has dequeued and not yet yielded
InHand(r) == IF cpc[r] = "got" /\ item[r] # None THEN <<item[r]>> ELSE <<>>

\* C11: with several runs in flight each run has its own producer, consumer,
\* queue, error slot and flag: what run A's producer pushes is received by
\* run A's consumer only, and no step changes the state of two runs.
C11_RunsIsolated ==
    /\ [](\A r \in Runs :
            /\ ~disconnected[r]
                  => ChunksOf(pushed[r])
                       = delivered[r] \o InHand(r) \o ChunksOf(chunk_queue[r])
            /\ Len(SentinelsOf(chunk_queue[r])) <= Len(SentinelsOf(pushed[r])))
    /\ [][\A r \in Runs :
            RunState(r)' # RunState(r)
                => \A q \in Runs \ {r} : RunState(q)' = RunState(q)]_vars

C11_Witness ==
    \E r, q \in Runs :
        /\ r # q
        /\ Len(delivered[r]) = 1
        /\ IsAlive(r)
        /\ IsAlive(q)
        /\ cpc[q] \in {"poll", "empty"}

\* C12: the body of a streaming response holds only audio chunks the Speech
\* Producer emitted; when a stage fails the stream just ends and nothing is
\* written after the last audio chunk.
C12_BodyOnlyProducedAudio ==
    \A r \in Runs :
        /\ IsPrefix(delivered[r], produced[r])
        /\ \A i \in 1..Len(delivered[r]) : delivered[r][i] \in Chunks

C12_Witness ==
    \E r \in Runs :
        /\ cpc[r] = "returned" /\ ~disconnected[r]
        /\ error_container[r] = "SynthFailed"
        /\ PipelineFault \in reported[r]
        /\ Len(delivered[r]) = 2

\* C13: a pipeline error raised before any audio byte was sent is reported
\* to the client with an error status, not as a successful response.
C13_EarlyErrorGetsErrorStatus ==
    \A r \in Runs :
        (cpc[r] = "returned" /\ ~disconnected[r]
           /\ error_container[r] # None /\ delivered[r] = <<>>)
            => status[r] >= 400

\* the steps of run r that run on the event loop thread
LoopStep(r) ==
    \/ Authenticate(r) \/ Start(r) \/ Empty(r) \/ Got(r) \/ Resume(r)
    \/ AfterLoop(r) \/ Join(r)

\* C14: while one run polls, ends or cleans up its worker, the event loop is
\* not blocked: a consumer of another run that has a step to take on the loop
\* can take it.
C14_EventLoopNotBlocked ==
    \A r \in Runs :
        cpc[r] \in {"auth", "start", "empty", "got", "yielded", "afterloop",
                    "join"}
            => ENABLED LoopStep(r)

\* C15: the media type of the streaming response matches the audio format the
\* Speech Producer is asked to emit (audio/wav for wav, audio/opus for opus,
\* audio/mpeg for mp3).
C15_MediaTypeMatchesFormat ==
    \A r \in Runs :
        response_format[r] # None
            => media_type[r] = CASE response_format[r] = "wav" -> "audio/wav"
                                 [] response_format[r] = "opus" -> "audio/opus"
                                 [] response_format[r] = "mp3" -> "audio/mpeg"

\* C16: under every interleaving of the workers of concurrent runs each
\* upstream client handle (MongoClient, OpenAI) is constructed at most once
\* per process.
C16_ClientsConstructedOnce ==
    mongo_client <= 1 /\ openai_client <= 1

\* C17: create_anchor_script called with an empty article collection fails
\* with an invalid-input error every time, before any chat-completion request
\* is issued.
C17_EmptyArticlesInvalidInput ==
    (dlast.fn = "compose" /\ dlast.arts = <<>>)
        => /\ dlast.raised = "NoArticlesProvided"
           /\ dlast.requests = 0

C17_Witness ==
    /\ dcalls = 2
    /\ dlast.fn = "compose" /\ dlast.arts = <<>>
    /\ OPENAI_API_KEY # None
    /\ openai_client = 1

\* C18: for every non-empty article collection for which the chat-completion
\* call returns, create_anchor_script returns a non-empty string, whatever
\* text the model produced.
C18_ScriptNonEmpty ==
    (dlast.fn = "compose" /\ dlast.arts # <<>> /\ dlast.raised = None)
        => dlast.value # <<>>

\* C19: with OPENAI_API_KEY absent every chat_completion and every iteration
\* of generate_speech_stream fails with a configuration error before any
\* remote request, no client handle is cached, and later calls fail the same.
C19_NoKeyFailsFast ==
    OPENAI_API_KEY = None
        => /\ openai_client = 0
           /\ (dlast.fn = "speech" \/ (dlast.fn = "compose" /\ dlast.arts # <<>>))
                 => (dlast.raised = "ConfigError" /\ dlast.requests = 0)
           /\ \A r \in Runs : chatCalls[r] = 0 /\ ttsCalls[r] = 0

C19_Witness ==
    /\ OPENAI_API_KEY = None
    /\ dcalls = 2
    /\ dlast.fn = "speech"
    /\ dlast.raised = "ConfigError"

\* C20: a synthesis call made without a voice argument sends a voice chosen
\* from the configured voice option set.
C20_VoiceFromOptions ==
    (dlast.fn = "speech" /\ dlast.voiceArg = None /\ dlast.requests = 1)
        => dlast.voice \in voice_options

\* C21: once a client disconnect has closed stream_generator, the sequence of
\* chunks handed to the HTTP layer never changes again, whatever is still on
\* the hand-off queue or arrives on it.
C21_NoDeliveryAfterDisconnect ==
    [][\A r \in Runs : disconnected[r] => delivered'[r] = delivered[r]]_vars

C21_Witness ==
    \E r \in Runs :
        /\ disconnected[r]
        /\ cpc[r] = "returned"
        /\ Len(pushed[r]) > pushedAtDisc[r]
        /\ ChunksOf(chunk_queue[r]) # <<>>

\* C22: within one run the stages are invoked at most once each and in the
\* order article fetch, script composer, speech producer: the composer only
\* after the fetch returned a non-empty collection, the speech producer only
\* after the composer returned a script, and no stage after a failed one.
C22_StagesInOrder ==
    \A r \in Runs :
        LET Err == IF exc[r] # None THEN exc[r] ELSE error_container[r] IN
        /\ fetchCalls[r] <= 1 /\ composeCalls[r] <= 1 /\ synthCalls[r] <= 1
        /\ composeCalls[r] > 0 => (fetchCalls[r] = 1 /\ articles[r] = "some")
        /\ synthCalls[r] > 0 => (composeCalls[r] = 1 /\ script[r] # None)
        /\ Err \in {"FetchFailed", "NoArticles"}
              => (composeCalls[r] = 0 /\ synthCalls[r] = 0)
        /\ Err \in {"NoArticlesProvided", "ComposeFailed"} => synthCalls[r] = 0

C22_Witness ==
    \E r \in Runs :
        /\ tpc[r] = "done"
        /\ fetchCalls[r] = 1 /\ composeCalls[r] = 1 /\ synthCalls[r] = 1
        /\ script[r] # None
        /\ error_container[r] = None
        /\ produced[r] # <<>>

\* C23: the producer holds at most one chunk that is not yet on the hand-off
\* queue, and only between receiving it and putting it: every chunk received
\* earlier was put before the next one was requested.
C23_PutBeforeNextChunk ==
    \A r \in Runs :
        produced[r] = IF tpc[r] = "put"
                      THEN Append(ChunksOf(pushed[r]), cur[r])
                      ELSE ChunksOf(pushed[r])

C23_Witness ==
    \E r \in Runs :
        /\ Len(delivered[r]) >= 1
        /\ ~disconnected[r]
        /\ tpc[r] = "put"
        /\ Len(produced[r]) >= 2

\* C24: without a client disconnect the consumer is past its polling loop only
\* when the producer has set its finished flag, and a timed-out poll that
\* finds the flag unset goes back to polling.
C24_EndOnlyAfterFinished ==
    /\ [](\A r \in Runs :
            (Streaming(r) /\ ~disconnected[r]
               /\ cpc[r] \in {"afterloop", "join", "returned"}) => finished[r])
    /\ [][\A r \in Runs :
            (cpc[r] = "empty" /\ ~finished[r] /\ cpc'[r] # "empty"
               /\ ~disconnected'[r]) => cpc'[r] = "poll"]_vars

C24_Witness ==
    \E r \in Runs :
        /\ cpc[r] = "empty"
        /\ ~finished[r]
        /\ ~disconnected[r]
        /\ Len(delivered[r]) >= 1

\* C25: an exception raised by a pipeline stage is stored in error_container
\* before the finished flag is set and before the terminal marker is put, so
\* a consumer that has left its polling loop without a disconnect and passed
\* the error test has reported a pipeline fault exactly when a stage raised.
C25_ErrorCapturedAndSurfaced ==
    \A r \in Runs :
        /\ exc[r] # None => (~finished[r] /\ SentinelsOf(pushed[r]) = <<>>)
        /\ (Streaming(r) /\ ~disconnected[r] /\ cpc[r] \in {"join", "returned"})
              => /\ exc[r] = None
                 /\ PipelineFault \in reported[r] <=> error_container[r] # None

C25_Witness ==
    \E r \in Runs :
        /\ cpc[r] = "returned"
        /\ ~disconnected[r]
        /\ error_container[r] = "SynthFailed"
        /\ PipelineFault \in reported[r]
        /\ delivered[r] # <<>>

\* C26: whenever the consumer leaves its polling loop through the branch of a
\* timed-out poll that finds the finished flag set, no audio chunk is on the
\* hand-off queue.
C26_BreakOnFinishedDropsNothing ==
    [][\A r \in Runs :
          (cpc[r] = "empty" /\ cpc'[r] = "afterloop")
              => ChunksOf(chunk_queue[r]) = <<>>]_vars

\* C27: a put on the hand-off queue is never blocked, and a worker thread that
\* was started terminates, with or without a client disconnect.
C27_WorkerTerminates ==
    /\ [](\A r \in Runs : tpc[r] \in {"put", "finally_put"}
                             => ENABLED (Put(r) \/ FinallyPut(r)))
    /\ \A r \in Runs : (tpc[r] # "notstarted") ~> (tpc[r] = "done")

C27_Witness ==
    \E r \in Runs :
        /\ disconnected[r]
        /\ tpc[r] = "done"
        /\ Len(chunk_queue[r]) >= 2
====
